---- MODULE Spec2Model ----
(***************************************************************************)
(* Model of the synthetic data generation job of production-ml:            *)
(*   src/src/data/synthetic_data_service.py  (SyntheticDataService)        *)
(*   src/src/api/routes/synthetic_data.py    (generate_data_task)          *)
(* One job: prepare directories, fit the model on a sample, dispatch the   *)
(* work units to a process pool, collect their results, concatenate the    *)
(* temporary files into the output file, clean up.                         *)
(* Beside the job, on their own:                                           *)
(*   src/src/models/vgm.py       (ScalableVGM: fit, transform, inverse)    *)
(*   src/src/data/db_manager.py  (DatabaseManager: the synthetic_data table)*)
(***************************************************************************)
EXTENDS Integers, Sequences, FiniteSets, TLC

(* ------------------------------ bounds -------------------------------- *)
\* target_size is drawn from -1 .. MaxTarget
MaxTarget == 3
\* chunk_size is drawn from 1 .. MaxChunkSize
MaxChunkSize == 2
\* chunks_per_file is drawn from 1 .. MaxChunksPerFile
MaxChunksPerFile == 2
\* number of worker processes of the pool (os.cpu_count())
PoolSize == 2
\* number of lines one infile.read(buffer_size) returns at most
BufferLines == 2
\* the input file has 0 or N_COMPONENTS + ExtraRows rows
ExtraRows == 1
\* a merge started on its own gets 0 .. MaxArtifacts temporary files
MaxArtifacts == 6
\* each of them with 0 .. MaxRecords records
MaxRecords == 3
\* the run's total_time, in whole seconds, is drawn from 0 .. MaxElapsed
MaxElapsed == 1
\* n_components of a mixture model is drawn from 1 .. MaxComponents
MaxComponents == 2
\* rows are inserted in synthetic_data until its AUTOINCREMENT id is MaxSequence
MaxSequence == 3

(* ------------------------- program constants -------------------------- *)
N_COMPONENTS == 10
LoaderChunkSize == 100000
ConcatBatch == 5
\* EPS = 1e-6; the weights of a mixture are counted in millionths
EPS == 1

(* ----------------------------- helpers -------------------------------- *)
\* The lines of a file: header and records are 4-tuples of the same shape.
Header == <<"Amount", 0, 0, 0>>
\* row r of the chunk written in iteration c by the work unit of file n
Record(n, c, r) == <<"row", n, c, r>>
\* a record left by an earlier run
StaleRecord == <<"row", -1, 0, 0>>

\* np.savetxt of one generated chunk: chunk_size rows, one per line
ChunkLines(n, c, size) == [r \in 1..size |-> Record(n, c, r)]

(* ------------------------------ paths --------------------------------- *)
\* A path is <<directory, stem, tag, number, suffix>>.
OutputFile == <<"out_dir", "synthetic_data", "", 0, ".csv">>
base_filename == OutputFile[2]
extension == OutputFile[5]

\* a mutant of TempFile: the file number is left out of the name
TempFileNoNumber(n) == <<"temp_dir", base_filename, "_temp_", 0, extension>>

\* temp_dir / f"{base_filename}_temp_{current_file_number}{extension}"
TempFile(n) == <<"temp_dir", base_filename, "_temp_", n, extension>>

\* a file in temp_dir that is no artifact of this job
StrayFile == <<"temp_dir", "notes", "", 0, ".txt">>

InTempDir(p) == p[1] = "temp_dir"

(* --------------------------- sizes of a job --------------------------- *)
\* self.chunk_size = config.chunk_size or self.loader.chunk_size
ChunkSizeOf(c) == IF c = 0 THEN LoaderChunkSize ELSE c

\* a rounding up that adds a chunk even when chunk_size divides target_size
NumChunksPlusOne(target, size) == (target \div size) + 1

\* (target_size + chunk_size - 1) // chunk_size
NumChunks(target, size) == (target + size - 1) \div size

\* range((num_chunks + chunks_per_file - 1) // chunks_per_file)
NumFiles(chunks, perFile) ==
    LET n == (chunks + perFile - 1) \div perFile IN IF n < 0 THEN 0 ELSE n

(* ------------------------------ state --------------------------------- *)
VARIABLES
    config,      \* SyntheticDataConfig: target_size, sample_size, chunk_size, chunks_per_file
    env,         \* what the job finds: rows of the input file, leftovers of an earlier run
    pc,          \* position of generate_synthetic_data
    status,      \* job_statuses[job_id]
    error,       \* the exception that ended the job, "" when none
    fitted,      \* vgm.means is not None
    tempDir,     \* temp_dir exists
    fs,          \* path -> lines, the files that exist
    num_chunks,  \* num_chunks of _generate_data_chunks
    temp_files,  \* temp_files of _generate_chunks_in_parallel
    futures,     \* the submitted work units, by file number + 1
    completed,   \* work units in the order they finished (as_completed)
    nresult,     \* how many results the orchestrator has taken
    merge,       \* position of the merge: file index, open input, lines read
    mlog,        \* what the merge did to the temporary files, in order
    given,       \* history: the temporary files' lines when the merge began
    detail,      \* the other keys of job_statuses[job_id]
    vgm,         \* a VariationalGaussianMixture
    call,        \* the last call made on vgm: arguments, what it raised, what it returned
    db,          \* the database of a DatabaseManager and the file it exports to
    pool,        \* the processes of a ProcessPoolExecutor and their numpy generators
    jobs         \* two jobs of the server at one time, and the files they share

vars == <<config, env, pc, status, error, fitted, tempDir, fs, num_chunks,
          temp_files, futures, completed, nresult, merge, mlog, given,
          detail, vgm, call, db, pool, jobs>>

chunk_size == ChunkSizeOf(config.chunk_size)

Exists(p) == p \in DOMAIN fs

\* open(p, 'w') followed by the first write: the file is created or truncated
WriteFile(f, p, lines) == [q \in DOMAIN f \cup {p} |-> IF q = p THEN lines ELSE f[q]]

AppendFile(f, p, lines) == [f EXCEPT ![p] = @ \o lines]

\* Path.unlink
Unlink(f, p) == [q \in DOMAIN f \ {p} |-> f[q]]

NoMerge == [i |-> 0, infile |-> "closed", pos |-> 0]

\* job_statuses[job_id] = {"status": "processing"}: no other key
NoDetail == [k \in {} |-> ""]

\* VariationalGaussianMixture(n_components): means, stds and
\* valid_component_indicator are None (assigned = FALSE), bgm is not fitted.
NewVgm(n) ==
    [n_components |-> n,
     bgm |-> [fitted |-> FALSE, weights |-> <<>>, means |-> <<>>, covariances |-> <<>>],
     assigned |-> FALSE,
     valid_component_indicator |-> <<>>,
     means |-> <<>>,
     stds |-> <<>>]

\* no call on vgm whose result the caller holds
NoCall ==
    [op |-> "none", data |-> <<>>, modes |-> <<>>, error |-> "", values |-> <<>>,
     mode_indicators |-> <<>>, of_data |-> <<>>, of_modes |-> <<>>,
     succeeded |-> FALSE]

\* DatabaseManager(db_path): not connected, no table, no operation made.
\* synthetic_data holds the rows of the table, sequence the greatest id it
\* ever gave; op, error, count and output tell the last operation and what it
\* gave; appended is history: the amounts inserted since the last clear.
NoDb ==
    [tables |-> FALSE, synthetic_data |-> {}, sequence |-> 0,
     op |-> "none", error |-> "", count |-> 0, output |-> <<>>,
     appended |-> <<>>]

(* ------------------------------- Init --------------------------------- *)
SampleSizes ==
    {-1, 0, N_COMPONENTS - 1, N_COMPONENTS + ExtraRows, N_COMPONENTS + ExtraRows + 1}

RowCounts == {0, N_COMPONENTS + ExtraRows}

\* what an earlier, failed run may have left behind
StaleFs ==
    [p \in {TempFile(0), StrayFile, OutputFile} |->
        IF p = StrayFile THEN <<>> ELSE <<Header, StaleRecord>>]

EmptyFs == [p \in {} |-> <<>>]

\* no ProcessPoolExecutor was made
NoPool == [start |-> "none", parent |-> <<0, 0>>, procs |-> <<>>, units |-> <<>>]

\* no two jobs are followed
NoJobs == [cfg |-> <<>>, unit |-> <<>>, pc |-> <<>>, fs |-> EmptyFs,
           written |-> <<>>, read |-> <<>>, deleted |-> <<>>]

Init ==
    /\ config \in [target_size : -1..MaxTarget,
                   sample_size : SampleSizes,
                   chunk_size : 1..MaxChunkSize,
                   chunks_per_file : 1..MaxChunksPerFile]
    /\ env \in [nrows : RowCounts, stale : BOOLEAN]
    /\ pc = "prepare"
    /\ status = "processing"
    /\ error = ""
    /\ fitted = FALSE
    /\ tempDir = env.stale
    /\ fs = IF env.stale THEN StaleFs ELSE EmptyFs
    /\ num_chunks = 0
    /\ temp_files = <<>>
    /\ futures = <<>>
    /\ completed = <<>>
    /\ nresult = 0
    /\ merge = NoMerge
    /\ mlog = <<>>
    /\ given = <<>>
    /\ detail = NoDetail
    /\ vgm = NewVgm(N_COMPONENTS)
    /\ call = NoCall
    /\ db = NoDb
    /\ pool = NoPool
    /\ jobs = NoJobs

(* ------------------------ the job's last step ------------------------- *)
\* an exception leaves generate_synthetic_data and reaches generate_data_task
Raise(e) ==
    /\ pc' = "raised"
    /\ error' = e

(* -------------------------- _prepare_directories ---------------------- *)
PrepareDirectories ==
    /\ pc = "prepare"
    /\ \/ /\ tempDir' = TRUE
          /\ pc' = "fit"
          /\ UNCHANGED error
       \/ /\ Raise("OSError")
          /\ UNCHANGED tempDir
    /\ UNCHANGED <<config, env, status, fitted, fs, num_chunks, temp_files,
                   futures, completed, nresult, merge, mlog, given,
                   detail, vgm, call, db, pool, jobs>>

(* ----------------------------- _fit_vgm_model ------------------------- *)
\* What the sampling and the fit raise, "" when they can succeed:
\*   sample_size / len(df) with an empty input,
\*   df.sample(frac < 0), and a sample smaller than n_components.
\* replace=True lets frac exceed 1: the sample then has sample_size rows.
FitError(sample, nrows) ==
    IF nrows = 0 THEN "ZeroDivisionError"
    ELSE IF sample < 0 THEN "ValueError"
    ELSE IF sample < N_COMPONENTS THEN "ValueError"
    ELSE ""

FitVgmModel ==
    /\ pc = "fit"
    /\ LET e == FitError(config.sample_size, env.nrows) IN
       \/ /\ e # ""
          /\ Raise(e)
          /\ UNCHANGED fitted
       \/ /\ e = ""
          /\ \/ /\ fitted' = TRUE
                /\ pc' = "chunks"
                /\ UNCHANGED error
             \/ /\ Raise("FitFailed")
                /\ UNCHANGED fitted
    /\ UNCHANGED <<config, env, status, tempDir, fs, num_chunks, temp_files,
                   futures, completed, nresult, merge, mlog, given,
                   detail, vgm, call, db, pool, jobs>>

(* --------------------------- _generate_data_chunks -------------------- *)
GenerateDataChunks ==
    /\ pc = "chunks"
    /\ num_chunks' = NumChunks(config.target_size, chunk_size)
    /\ pc' = "submit"
    /\ UNCHANGED <<config, env, status, error, fitted, tempDir, fs, temp_files,
                   futures, completed, nresult, merge, mlog, given,
                   detail, vgm, call, db, pool, jobs>>

(* ------------------------ _generate_chunks_in_parallel ---------------- *)
\* executor.submit(self._write_chunks_to_file, current_output_file, num_chunks)
WorkUnit(n, chunks) ==
    [file |-> TempFile(n), state |-> "pending", num_chunks |-> chunks, iter |-> 0]

\* one iteration of the submitting loop
Submit ==
    /\ pc = "submit"
    /\ Len(futures) < NumFiles(num_chunks, config.chunks_per_file)
    /\ LET current_file_number == Len(futures)
           unit == WorkUnit(current_file_number, num_chunks) IN
       /\ temp_files' = Append(temp_files, unit.file)
       /\ futures' = Append(futures, unit)
    /\ UNCHANGED <<config, env, pc, status, error, fitted, tempDir, fs,
                   num_chunks, completed, nresult, merge, mlog, given,
                   detail, vgm, call, db, pool, jobs>>

\* the submitting loop ends, the orchestrator enters as_completed
SubmitDone ==
    /\ pc = "submit"
    /\ Len(futures) >= NumFiles(num_chunks, config.chunks_per_file)
    /\ pc' = "wait"
    /\ UNCHANGED <<config, env, status, error, fitted, tempDir, fs, num_chunks,
                   temp_files, futures, completed, nresult, merge, mlog, given,
                   detail, vgm, call, db, pool, jobs>>

Units == 1..Len(futures)
Running == {w \in Units : futures[w].state = "running"}
Finished(w) == futures[w].state \in {"done", "failed"}
AllFinished == \A w \in Units : Finished(w)

\* a failed work unit that is put back in the queue
WorkerRetried(w) ==
    /\ futures' = [futures EXCEPT ![w].state = "pending", ![w].iter = 0,
                                  ![w].num_chunks = num_chunks]
    /\ UNCHANGED completed

\* the work unit ends with an exception: its future holds it
WorkerFails(w) ==
    /\ futures' = [futures EXCEPT ![w].state = "failed"]
    /\ completed' = Append(completed, w)

(* --------------------------- _write_chunks_to_file -------------------- *)
\* a work unit that opens its file with 'a': what the file held stays
WorkerOpenAppending(w) ==
    /\ futures[w].state = "pending"
    /\ Cardinality(Running) < PoolSize
    /\ fs' = IF Exists(futures[w].file)
             THEN AppendFile(fs, futures[w].file, <<Header>>)
             ELSE WriteFile(fs, futures[w].file, <<Header>>)
    /\ futures' = [futures EXCEPT ![w].state = "running"]
    /\ UNCHANGED completed
    /\ UNCHANGED <<config, env, pc, status, error, fitted, tempDir, num_chunks,
                   temp_files, nresult, merge, mlog, given,
                   detail, vgm, call, db, pool, jobs>>

\* a pool process takes the work unit: open(output_file, 'w'), write the header
WorkerOpen(w) ==
    /\ futures[w].state = "pending"
    /\ Cardinality(Running) < PoolSize
    /\ \/ /\ fs' = WriteFile(fs, futures[w].file, <<Header>>)
          /\ futures' = [futures EXCEPT ![w].state = "running"]
          /\ UNCHANGED completed
       \/ /\ WorkerFails(w)
          /\ UNCHANGED fs
    /\ UNCHANGED <<config, env, pc, status, error, fitted, tempDir, num_chunks,
                   temp_files, nresult, merge, mlog, given,
                   detail, vgm, call, db, pool, jobs>>

\* a loop that writes the header before every chunk
WorkerChunkWithHeader(w) ==
    /\ futures[w].state = "running"
    /\ futures[w].iter < config.chunks_per_file
    /\ futures[w].num_chunks > 0
    /\ fs' = AppendFile(fs, futures[w].file,
                        <<Header>> \o ChunkLines(w - 1, futures[w].iter, chunk_size))
    /\ futures' = [futures EXCEPT ![w].iter = @ + 1, ![w].num_chunks = @ - 1]
    /\ UNCHANGED completed
    /\ UNCHANGED <<config, env, pc, status, error, fitted, tempDir, num_chunks,
                   temp_files, nresult, merge, mlog, given,
                   detail, vgm, call, db, pool, jobs>>

\* one iteration of the loop: generate a chunk and np.savetxt it
WorkerChunk(w) ==
    /\ futures[w].state = "running"
    /\ futures[w].iter < config.chunks_per_file
    /\ futures[w].num_chunks > 0
    /\ \/ /\ fs' = AppendFile(fs, futures[w].file,
                     ChunkLines(w - 1, futures[w].iter, chunk_size))
          /\ futures' = [futures EXCEPT ![w].iter = @ + 1, ![w].num_chunks = @ - 1]
          /\ UNCHANGED completed
       \/ /\ WorkerFails(w)
          /\ UNCHANGED fs
    /\ UNCHANGED <<config, env, pc, status, error, fitted, tempDir, num_chunks,
                   temp_files, nresult, merge, mlog, given,
                   detail, vgm, call, db, pool, jobs>>

\* the loop ends (range exhausted, or num_chunks <= 0): the file is closed
WorkerReturn(w) ==
    /\ futures[w].state = "running"
    /\ \/ futures[w].iter >= config.chunks_per_file
       \/ futures[w].num_chunks <= 0
    /\ futures' = [futures EXCEPT ![w].state = "done"]
    /\ completed' = Append(completed, w)
    /\ UNCHANGED <<config, env, pc, status, error, fitted, tempDir, fs,
                   num_chunks, temp_files, nresult, merge, mlog, given,
                   detail, vgm, call, db, pool, jobs>>

(* ------------- for future in as_completed(futures): future.result() --- *)
\* a mutant of TakeResult: the exception of a failed work unit is not re-raised
TakeResultIgnoringFailure ==
    /\ pc = "wait"
    /\ nresult < Len(completed)
    /\ nresult' = nresult + 1
    /\ UNCHANGED <<config, env, pc, status, error, fitted, tempDir, fs,
                   num_chunks, temp_files, futures, completed, merge, mlog, given,
                   detail, vgm, call, db, pool, jobs>>

TakeResult ==
    /\ pc = "wait"
    /\ nresult < Len(completed)
    /\ LET w == completed[nresult + 1] IN
       IF futures[w].state = "failed"
       THEN /\ pc' = "shutdown"
            /\ error' = "WorkerError"
            /\ UNCHANGED nresult
       ELSE /\ nresult' = nresult + 1
            /\ UNCHANGED <<pc, error>>
    /\ UNCHANGED <<config, env, status, fitted, tempDir, fs, num_chunks,
                   temp_files, futures, completed, merge, mlog, given,
                   detail, vgm, call, db, pool, jobs>>

\* a mutant of AllResults: the list is returned in completion order
AllResultsInCompletionOrder ==
    /\ pc = "wait"
    /\ nresult = Len(futures)
    /\ pc' = "concat"
    /\ temp_files' = [i \in 1..Len(completed) |-> futures[completed[i]].file]
    /\ UNCHANGED <<config, env, status, error, fitted, tempDir, fs, num_chunks,
                   futures, completed, nresult, merge, mlog, given,
                   detail, vgm, call, db, pool, jobs>>

\* a mutant of AllResults: the first result ends the wait
AllResultsAfterFirst ==
    /\ pc = "wait"
    /\ nresult >= (IF Len(futures) = 0 THEN 0 ELSE 1)
    /\ pc' = "concat"
    /\ UNCHANGED <<config, env, status, error, fitted, tempDir, fs, num_chunks,
                   temp_files, futures, completed, nresult, merge, mlog, given,
                   detail, vgm, call, db, pool, jobs>>

\* every future has given its result: the with block ends, the list is returned
AllResults ==
    /\ pc = "wait"
    /\ nresult = Len(futures)
    /\ pc' = "concat"
    /\ UNCHANGED <<config, env, status, error, fitted, tempDir, fs, num_chunks,
                   temp_files, futures, completed, nresult, merge, mlog, given,
                   detail, vgm, call, db, pool, jobs>>

\* the exception leaves the with block: executor.shutdown(wait=True)
Shutdown ==
    /\ pc = "shutdown"
    /\ AllFinished
    /\ pc' = "raised"
    /\ UNCHANGED <<config, env, status, error, fitted, tempDir, fs, num_chunks,
                   temp_files, futures, completed, nresult, merge, mlog, given,
                   detail, vgm, call, db, pool, jobs>>

(* ---------------------------- _concatenate_results -------------------- *)
Min(a, b) == IF a < b THEN a ELSE b

\* open(self.config.output_file, 'wb'); outfile.write(b'Amount\n')
ConcatOpen ==
    /\ pc = "concat"
    /\ \/ /\ fs' = WriteFile(fs, OutputFile, <<Header>>)
          /\ merge' = [i |-> 1, infile |-> "closed", pos |-> 0]
          /\ given' = [i \in 1..Len(temp_files) |->
                          IF Exists(temp_files[i]) THEN fs[temp_files[i]] ELSE <<>>]
          /\ pc' = IF Len(temp_files) = 0 THEN "cleanup" ELSE "merge"
          /\ UNCHANGED error
       \/ /\ Raise("IOError")
          /\ UNCHANGED <<fs, merge, given>>
    /\ UNCHANGED <<config, env, status, fitted, tempDir, num_chunks, temp_files,
                   futures, completed, nresult, mlog,
                   detail, vgm, call, db, pool, jobs>>

(* ----------------------------- _process_file_batch -------------------- *)
temp_file == temp_files[merge.i]

\* a mutant of SkipHeader: the header line is not skipped
SkipNothing(lines) == 0

\* infile.readline(): the position after the first line
SkipHeader(lines) == Min(1, Len(lines))

\* a mutant of MergeOpen: the error is logged and the loop goes on (no raise)
MergeOpenNoRaise ==
    /\ pc = "merge"
    /\ merge.infile = "closed"
    /\ \/ /\ Exists(temp_file)
          /\ merge' = [merge EXCEPT !.infile = "open",
                                    !.pos = Min(1, Len(fs[temp_file]))]
          /\ mlog' = Append(mlog, <<"open", temp_file>>)
          /\ UNCHANGED <<pc, error>>
       \/ /\ error' = "IOError"
          /\ merge' = [merge EXCEPT !.i = @ + 1]
          /\ pc' = IF merge.i % ConcatBatch = 0 \/ merge.i = Len(temp_files)
                   THEN "flush" ELSE "merge"
          /\ UNCHANGED mlog
    /\ UNCHANGED <<config, env, status, fitted, tempDir, fs, num_chunks,
                   temp_files, futures, completed, nresult, given,
                   detail, vgm, call, db, pool, jobs>>

\* open(temp_file, 'rb'); infile.readline()
MergeOpen ==
    /\ pc = "merge"
    /\ merge.infile = "closed"
    /\ IF ~Exists(temp_file)
       THEN /\ Raise("FileNotFoundError")
            /\ UNCHANGED <<merge, mlog>>
       ELSE \/ /\ merge' = [merge EXCEPT !.infile = "open",
                                         !.pos = SkipHeader(fs[temp_file])]
               /\ mlog' = Append(mlog, <<"open", temp_file>>)
               /\ UNCHANGED <<pc, error>>
            \/ /\ Raise("IOError")
               /\ UNCHANGED <<merge, mlog>>
    /\ UNCHANGED <<config, env, status, fitted, tempDir, fs, num_chunks,
                   temp_files, futures, completed, nresult, given,
                   detail, vgm, call, db, pool, jobs>>

\* chunk = infile.read(buffer_size); outfile.write(chunk)
MergeCopy ==
    /\ pc = "merge"
    /\ merge.infile = "open"
    /\ merge.pos < Len(fs[temp_file])
    /\ \/ LET upto == Min(merge.pos + BufferLines, Len(fs[temp_file])) IN
          /\ fs' = AppendFile(fs, OutputFile,
                              SubSeq(fs[temp_file], merge.pos + 1, upto))
          /\ merge' = [merge EXCEPT !.pos = upto]
          /\ UNCHANGED <<pc, error>>
       \/ /\ Raise("IOError")
          /\ UNCHANGED <<fs, merge>>
    /\ UNCHANGED <<config, env, status, fitted, tempDir, num_chunks, temp_files,
                   futures, completed, nresult, mlog, given,
                   detail, vgm, call, db, pool, jobs>>

\* a copy loop that stops after its first read
MergeEofEarly ==
    /\ pc = "merge"
    /\ merge.infile = "open"
    /\ merge.pos >= Min(SkipHeader(fs[temp_file]) + BufferLines, Len(fs[temp_file]))
    /\ merge' = [merge EXCEPT !.infile = "copied"]
    /\ mlog' = Append(mlog, <<"eof", temp_file>>)
    /\ UNCHANGED <<config, env, pc, status, error, fitted, tempDir, fs,
                   num_chunks, temp_files, futures, completed, nresult, given,
                   detail, vgm, call, db, pool, jobs>>

\* the read returns nothing: break, and the with block closes infile
MergeEof ==
    /\ pc = "merge"
    /\ merge.infile = "open"
    /\ merge.pos >= Len(fs[temp_file])
    /\ merge' = [merge EXCEPT !.infile = "copied"]
    /\ mlog' = Append(mlog, <<"eof", temp_file>>)
    /\ UNCHANGED <<config, env, pc, status, error, fitted, tempDir, fs,
                   num_chunks, temp_files, futures, completed, nresult, given,
                   detail, vgm, call, db, pool, jobs>>

\* the file after the last one of a batch of ConcatBatch files, or of the list
BatchEnds(i) == i % ConcatBatch = 0 \/ i = Len(temp_files)

\* a mutant of MergeUnlink: the temporary file is kept
MergeKeep ==
    /\ pc = "merge"
    /\ merge.infile = "copied"
    /\ merge' = [merge EXCEPT !.i = @ + 1, !.infile = "closed", !.pos = 0]
    /\ pc' = IF BatchEnds(merge.i) THEN "flush" ELSE "merge"
    /\ UNCHANGED <<config, env, status, error, fitted, tempDir, fs, num_chunks,
                   temp_files, futures, completed, nresult, mlog, given,
                   detail, vgm, call, db, pool, jobs>>

\* temp_file.unlink()
MergeUnlink ==
    /\ pc = "merge"
    /\ merge.infile = "copied"
    /\ \/ /\ fs' = Unlink(fs, temp_file)
          /\ mlog' = Append(mlog, <<"unlink", temp_file>>)
          /\ merge' = [merge EXCEPT !.i = @ + 1, !.infile = "closed", !.pos = 0]
          /\ pc' = IF BatchEnds(merge.i) THEN "flush" ELSE "merge"
          /\ UNCHANGED error
       \/ /\ Raise("OSError")
          /\ UNCHANGED <<fs, merge, mlog>>
    /\ UNCHANGED <<config, env, status, fitted, tempDir, num_chunks, temp_files,
                   futures, completed, nresult, given,
                   detail, vgm, call, db, pool, jobs>>

\* outfile.flush() after a batch; after the last batch outfile is closed
Flush ==
    /\ pc = "flush"
    /\ \/ /\ pc' = IF merge.i > Len(temp_files) THEN "cleanup" ELSE "merge"
          /\ UNCHANGED error
       \/ Raise("IOError")
    /\ UNCHANGED <<config, env, status, fitted, tempDir, fs, num_chunks,
                   temp_files, futures, completed, nresult, merge, mlog, given,
                   detail, vgm, call, db, pool, jobs>>

(* --------------------------------- _cleanup --------------------------- *)
TempDirEmpty == \A p \in DOMAIN fs : ~InTempDir(p)

\* a cleanup that removes temp_dir whatever it holds
CleanupAlways ==
    /\ pc = "cleanup"
    /\ \/ /\ tempDir' = FALSE
          /\ pc' = "returned"
          /\ UNCHANGED error
       \/ /\ Raise("OSError")
          /\ UNCHANGED tempDir
    /\ UNCHANGED <<config, env, status, fitted, fs, num_chunks, temp_files,
                   futures, completed, nresult, merge, mlog, given,
                   detail, vgm, call, db, pool, jobs>>

\* if not any(temp_dir.iterdir()): temp_dir.rmdir()
Cleanup ==
    /\ pc = "cleanup"
    /\ \/ /\ tempDir' = IF TempDirEmpty THEN FALSE ELSE tempDir
          /\ pc' = "returned"
          /\ UNCHANGED error
       \/ /\ Raise("OSError")
          /\ UNCHANGED tempDir
    /\ UNCHANGED <<config, env, status, fitted, fs, num_chunks, temp_files,
                   futures, completed, nresult, merge, mlog, given,
                   detail, vgm, call, db, pool, jobs>>

(* ----------------------------- generate_data_task --------------------- *)
\* job_statuses[job_id] = {"status": "completed", "output_file": ...,
\*                          "metrics": {"processing_time_seconds": total_time}}
\* total_time is time.time() - start_time of generate_synthetic_data.
TaskCompleted ==
    /\ pc = "returned"
    /\ status' = "completed"
    /\ \E total_time \in 0..MaxElapsed :
          detail' = [output_file |-> OutputFile,
                     metrics |-> [processing_time_seconds |-> total_time]]
    /\ pc' = "done"
    /\ UNCHANGED <<config, env, error, fitted, tempDir, fs, num_chunks,
                   temp_files, futures, completed, nresult, merge, mlog, given,
                   vgm, call, db, pool, jobs>>

\* a failed status written without the error's message
TaskFailedNoMessage ==
    /\ pc = "raised"
    /\ status' = "failed"
    /\ pc' = "done"
    /\ UNCHANGED <<config, env, error, fitted, tempDir, fs, num_chunks,
                   temp_files, futures, completed, nresult, merge, mlog, given,
                   detail, vgm, call, db, pool, jobs>>

\* an except branch that logs the error and leaves job_statuses alone
TaskFailedUnreported ==
    /\ pc = "raised"
    /\ pc' = "done"
    /\ UNCHANGED <<config, env, status, error, fitted, tempDir, fs, num_chunks,
                   temp_files, futures, completed, nresult, merge, mlog, given,
                   detail, vgm, call, db, pool, jobs>>

\* except Exception as e:
\*     job_statuses[job_id] = {"status": "failed", "error_message": str(e)}
TaskFailed ==
    /\ pc = "raised"
    /\ status' = "failed"
    /\ detail' = [error_message |-> error]
    /\ pc' = "done"
    /\ UNCHANGED <<config, env, error, fitted, tempDir, fs, num_chunks,
                   temp_files, futures, completed, nresult, merge, mlog, given,
                   vgm, call, db, pool, jobs>>

(* ------------------------------ the job ------------------------------- *)
Next ==
    \/ PrepareDirectories
    \/ FitVgmModel
    \/ GenerateDataChunks
    \/ Submit
    \/ SubmitDone
    \/ \E w \in Units : WorkerOpen(w)
    \/ \E w \in Units : WorkerChunk(w)
    \/ \E w \in Units : WorkerReturn(w)
    \/ TakeResult
    \/ AllResults
    \/ Shutdown
    \/ ConcatOpen
    \/ MergeOpen
    \/ MergeCopy
    \/ MergeEof
    \/ MergeUnlink
    \/ Flush
    \/ Cleanup
    \/ TaskCompleted
    \/ TaskFailed

Spec == Init /\ [][Next]_vars

(* ------------------------- the job, scheduled -------------------------- *)
\* the steps of the background task: generate_data_task and what it calls
Orchestrator ==
    \/ PrepareDirectories
    \/ FitVgmModel
    \/ GenerateDataChunks
    \/ Submit
    \/ SubmitDone
    \/ TakeResult
    \/ AllResults
    \/ Shutdown
    \/ ConcatOpen
    \/ MergeOpen
    \/ MergeCopy
    \/ MergeEof
    \/ MergeUnlink
    \/ Flush
    \/ Cleanup
    \/ TaskCompleted
    \/ TaskFailed

\* the steps of the pool process that runs work unit w
Worker(w) ==
    /\ w \in Units
    /\ WorkerOpen(w) \/ WorkerChunk(w) \/ WorkerReturn(w)

\* the most work units a job submits
MaxUnits == NumFiles(NumChunks(MaxTarget, 1), 1)

\* The background task keeps running, and every work unit the pool holds is
\* taken by a free process and runs to its end or to an exception.
FairSpec ==
    /\ Spec
    /\ WF_vars(Orchestrator)
    /\ \A w \in 1..MaxUnits : WF_vars(Worker(w))

(* ------------- a job of 1000 records in chunks of 250 ------------------ *)
\* SyntheticDataConfig(target_size=1000, chunk_size=250, chunks_per_file=2)
\* on an input file large enough for the sample
InitScenario ==
    /\ config = [target_size |-> 1000, sample_size |-> N_COMPONENTS + ExtraRows,
                 chunk_size |-> 250, chunks_per_file |-> 2]
    /\ env \in [nrows : {N_COMPONENTS + ExtraRows}, stale : BOOLEAN]
    /\ pc = "prepare"
    /\ status = "processing"
    /\ error = ""
    /\ fitted = FALSE
    /\ tempDir = env.stale
    /\ fs = IF env.stale THEN StaleFs ELSE EmptyFs
    /\ num_chunks = 0
    /\ temp_files = <<>>
    /\ futures = <<>>
    /\ completed = <<>>
    /\ nresult = 0
    /\ merge = NoMerge
    /\ mlog = <<>>
    /\ given = <<>>
    /\ detail = NoDetail
    /\ vgm = NewVgm(N_COMPONENTS)
    /\ call = NoCall
    /\ db = NoDb
    /\ pool = NoPool
    /\ jobs = NoJobs

SpecScenario == InitScenario /\ [][Next]_vars

(* ------------------- the merge on given temporary files --------------- *)
\* A temporary file as a finished work unit leaves it: header, then k records.
Artifact(n, k) == <<Header>> \o [r \in 1..k |-> Record(n, 0, r)]

\* The state in which _concatenate_results is called with n temporary files of
\* k records each, every work unit having returned.
InitMerge ==
    \E n \in 0..MaxArtifacts, k \in 0..MaxRecords, stale \in BOOLEAN :
        /\ config = [target_size |-> n * k, sample_size |-> N_COMPONENTS,
                     chunk_size |-> IF k = 0 THEN 1 ELSE k, chunks_per_file |-> 1]
        /\ env = [nrows |-> N_COMPONENTS + ExtraRows, stale |-> stale]
        /\ pc = "concat"
        /\ status = "processing"
        /\ error = ""
        /\ fitted = TRUE
        /\ tempDir = TRUE
        /\ fs = [p \in {TempFile(i) : i \in 0..(n - 1)}
                        \cup (IF stale THEN {StrayFile, OutputFile} ELSE {}) |->
                    IF p = StrayFile THEN <<>>
                    ELSE IF p = OutputFile THEN <<Header, StaleRecord>>
                    ELSE Artifact(p[4], k)]
        /\ num_chunks = n
        /\ temp_files = [i \in 1..n |-> TempFile(i - 1)]
        /\ futures = [i \in 1..n |->
                        [file |-> TempFile(i - 1), state |-> "done",
                         num_chunks |-> n - 1, iter |-> 1]]
        /\ completed = [i \in 1..n |-> i]
        /\ nresult = n
        /\ merge = NoMerge
        /\ mlog = <<>>
        /\ given = <<>>
        /\ detail = NoDetail
        /\ vgm = NewVgm(N_COMPONENTS)
        /\ call = NoCall
        /\ db = NoDb
        /\ pool = NoPool
        /\ jobs = NoJobs

NextMerge ==
    \/ ConcatOpen
    \/ MergeOpen
    \/ MergeCopy
    \/ MergeEof
    \/ MergeUnlink
    \/ Flush
    \/ Cleanup
    \/ TaskCompleted
    \/ TaskFailed

SpecMerge == InitMerge /\ [][NextMerge]_vars

(* ============================== claims ================================ *)
RECURSIVE SumSeq(_)
SumSeq(s) == IF s = <<>> THEN 0 ELSE s[1] + SumSeq(Tail(s))

\* ceil(a / b) of the specification, for b > 0
Ceil(a, b) == IF a % b = 0 THEN a \div b ELSE (a \div b) + 1

\* the records of the temporary files, at the moment the work units are done
TotalWritten ==
    SumSeq([i \in 1..Len(temp_files) |->
               IF Exists(temp_files[i]) THEN Len(fs[temp_files[i]]) - 1 ELSE 0])

\* C1: once all work units of a job with positive sizes have finished
\* successfully, the records written across all temporary files number
\* ceil(target_size / chunk_size) * chunk_size, at most chunk_size - 1 more
\* than target_size.
C1_VolumeInvariant ==
    (pc = "concat" /\ config.target_size > 0) =>
        /\ TotalWritten = Ceil(config.target_size, chunk_size) * chunk_size
        /\ TotalWritten - config.target_size <= chunk_size - 1

\* the merge has processed every temporary file
MergeDone == pc \in {"cleanup", "returned"} \/ (pc = "done" /\ status = "completed")

Body(lines) == IF lines = <<>> THEN <<>> ELSE Tail(lines)

RECURSIVE ConcatBodies(_)
ConcatBodies(g) == IF g = <<>> THEN <<>> ELSE Body(g[1]) \o ConcatBodies(Tail(g))

\* C2: merging N temporary files of one header and k records each leaves an
\* output file with exactly one header, as its first line, followed by the
\* N*k records, file by file in list order and in each file's own order.
C2_MergeCorrect ==
    MergeDone =>
        LET out == fs[OutputFile]
            N == Len(given)
            k == IF N = 0 THEN 0 ELSE Len(given[1]) - 1
        IN  /\ \A i \in 1..N : given[i] = Artifact(i - 1, k)
            /\ out[1] = Header
            /\ \A j \in 2..Len(out) : out[j] # Header
            /\ Len(out) = 1 + N * k
            /\ out = <<Header>> \o ConcatBodies(given)

\* C2 witness: a finished merge of more files than one flush batch, each
\* longer than one read
C2_Witness ==
    /\ pc = "done"
    /\ status = "completed"
    /\ Len(given) > ConcatBatch
    /\ Len(given[1]) - 1 > BufferLines
    /\ Len(fs[OutputFile]) = 1 + Len(given) * (Len(given[1]) - 1)

FileNumber(p) == p[4]

\* what the merge is in the middle of, or has done
InMerge == pc \in {"concat", "merge", "flush", "cleanup", "returned"}

\* the files the merge has opened, in the order it opened them
Opened ==
    LET opens == SelectSeq(mlog, LAMBDA e : e[1] = "open")
    IN  [i \in 1..Len(opens) |-> opens[i][2]]

RECURSIVE LinesOfChunks(_, _, _)
\* the chunks c .. m-1 of file number n
LinesOfChunks(n, c, m) ==
    IF c >= m THEN <<>>
    ELSE ChunkLines(n, c, chunk_size) \o LinesOfChunks(n, c + 1, m)

RECURSIVE LinesOfFiles(_, _, _)
\* the records of the files n .. nf-1, each of m chunks
LinesOfFiles(n, nf, m) ==
    IF n >= nf THEN <<>>
    ELSE LinesOfChunks(n, 0, m) \o LinesOfFiles(n + 1, nf, m)

\* the output file as the job's sizes alone determine it
ExpectedOutput ==
    LET chunks == NumChunks(config.target_size, chunk_size)
        nf == NumFiles(chunks, config.chunks_per_file)
        m == Min(config.chunks_per_file, chunks)
    IN  <<Header>> \o LinesOfFiles(0, nf, m)

\* C3: whatever the order in which the work units complete, the list handed
\* to the merge is in increasing file-number order, the merge opens the files
\* in that order, and the output file of a completed job is the one the job's
\* sizes determine, the same for every schedule.
C3_MergeInSubmissionOrder ==
    /\ InMerge \/ status = "completed" =>
          \A i \in 1..Len(temp_files) : FileNumber(temp_files[i]) = i - 1
    /\ Opened = SubSeq(temp_files, 1, Len(Opened))
    /\ status = "completed" => fs[OutputFile] = ExpectedOutput

\* C3 witness: a completed job whose second work unit finished before its first
C3_Witness ==
    /\ status = "completed"
    /\ Len(completed) >= 2
    /\ completed[1] > completed[2]
    /\ Len(Opened) = Len(temp_files)

\* the submitting loop has run to its end
Dispatched == fitted /\ pc \notin {"fit", "chunks", "submit"}

\* C4: one work unit is submitted for each file number in [0, numBatches),
\* numBatches = ceil(ceil(target_size / chunk_size) / chunks_per_file), and no
\* two work units of the job write the same temporary file.
C4_OneWorkUnitPerBatch ==
    /\ \A w \in Units : FileNumber(futures[w].file) = w - 1
    /\ \A v, w \in Units : v # w => futures[v].file # futures[w].file
    /\ Dispatched /\ config.target_size > 0 =>
          Len(futures) = Ceil(Ceil(config.target_size, chunk_size),
                              config.chunks_per_file)

\* C4 witness: two work units of a dispatched job write at the same time
C4_Witness ==
    /\ Dispatched
    /\ Cardinality(Running) >= 2
    /\ \A w \in Running : Exists(futures[w].file) /\ Len(fs[futures[w].file]) > 1

\* the last lines of a sequence
Suffix(lines, n) == SubSeq(lines, Len(lines) - n + 1, Len(lines))

\* C5: the merge opens every temporary file at most once, deletes it after its
\* last line is copied and before it opens the next one, and a deleted file is
\* neither read nor deleted again.
C5_ReadOnceThenDeleted ==
    /\ \A p \in 1..Len(mlog) :
          LET e == mlog[p] IN
          /\ e[1] = "open" =>
                /\ \A q \in 1..Len(mlog) :
                      (q # p /\ mlog[q][1] = "open") => mlog[q][2] # e[2]
                /\ p > 1 => mlog[p - 1][1] = "unlink"
          /\ e[1] = "eof" => p > 1 /\ mlog[p - 1] = <<"open", e[2]>>
          /\ e[1] = "unlink" =>
                /\ p > 1 /\ mlog[p - 1] = <<"eof", e[2]>>
                /\ ~Exists(e[2])
                /\ \A q \in 1..Len(mlog) : (q > p) => mlog[q][2] # e[2]
    /\ merge.infile = "copied" =>
          /\ Exists(temp_file)
          /\ Len(fs[OutputFile]) > Len(Body(fs[temp_file]))
          /\ Suffix(fs[OutputFile], Len(Body(fs[temp_file]))) = Body(fs[temp_file])

\* C5 witness: a completed merge that read and deleted more than one batch of files
C5_Witness ==
    /\ status = "completed"
    /\ Len(temp_files) > ConcatBatch
    /\ Len(mlog) = 3 * Len(temp_files)
    /\ \A i \in 1..Len(temp_files) : ~Exists(temp_files[i])

\* C6: while a work unit is pending or running the merge has touched no
\* temporary file, and every file the merge opens or deletes belongs to a
\* work unit that has returned, as have all the others.
C6_NoConcurrentAccess ==
    /\ (\E w \in Units : ~Finished(w)) =>
          /\ mlog = <<>>
          /\ merge.infile = "closed"
          /\ ~InMerge
    /\ \A p \in 1..Len(mlog) : \A w \in Units :
          futures[w].file = mlog[p][2] => futures[w].state = "done"
    /\ merge.infile # "closed" => \A w \in Units : futures[w].state = "done"

\* C6 witness: the merge reads a temporary file of a job of several work units
C6_Witness ==
    /\ merge.infile = "open"
    /\ merge.pos > 0
    /\ Len(futures) >= 2
    /\ AllFinished

AnyFailed == \E w \in Units : futures[w].state = "failed"

\* the output file is as it was before the job
OutputUntouched ==
    IF env.stale
    THEN Exists(OutputFile) /\ fs[OutputFile] = <<Header, StaleRecord>>
    ELSE ~Exists(OutputFile)

\* C7: once a work unit has failed the job never completes and ends failed;
\* the merge is not started, the output file is neither created nor written,
\* the temp directory stays, and the files of the other work units stay.
C7_WorkUnitFailureAborts ==
    AnyFailed =>
        /\ status # "completed"
        /\ pc = "done" => status = "failed"
        /\ ~InMerge
        /\ merge = NoMerge /\ mlog = <<>> /\ given = <<>>
        /\ OutputUntouched
        /\ tempDir
        /\ \A w \in Units :
              /\ futures[w].state \in {"running", "done"} => Exists(futures[w].file)
              /\ futures[w].state = "done" =>
                    Len(fs[futures[w].file]) = 1 + futures[w].iter * chunk_size

\* C7 witness: a failed job with one failed work unit and one that wrote its file
C7_Witness ==
    /\ pc = "done"
    /\ status = "failed"
    /\ AnyFailed
    /\ \E w \in Units : futures[w].state = "done" /\ Len(fs[futures[w].file]) > 1

\* an error ended the merge at temporary file merge.i
MergeFailed == error # "" /\ merge.i \in 1..Len(temp_files)

\* C8: when the merge fails at temporary file i, no file after i is opened or
\* deleted, the partly written output file and the temp directory stay, and
\* the job ends failed, never completed.
C8_MergeFailureStops ==
    MergeFailed =>
        /\ pc \in {"raised", "done"}
        /\ status # "completed"
        /\ pc = "done" => status = "failed"
        /\ Exists(temp_files[merge.i])
        /\ \A j \in (merge.i + 1)..Len(temp_files) :
              /\ Exists(temp_files[j])
              /\ fs[temp_files[j]] = given[j]
              /\ \A p \in 1..Len(mlog) : mlog[p][2] # temp_files[j]
        /\ Exists(OutputFile)
        /\ tempDir

\* C8 witness: a job failed while copying a file that is neither the first nor
\* the last, with part of the output written
C8_Witness ==
    /\ pc = "done"
    /\ status = "failed"
    /\ merge.i > 1 /\ merge.i < Len(temp_files)
    /\ merge.infile = "open" /\ merge.pos > 1
    /\ Len(fs[OutputFile]) > 1

\* C9: a job whose sample_size exceeds the rows of the input file fails fast:
\* it never completes, ends failed, submits no work unit and creates no
\* temporary file.
C9_OversizedSampleRejected ==
    config.sample_size > env.nrows =>
        /\ status # "completed"
        /\ pc = "done" => status = "failed"
        /\ futures = <<>>
        /\ \A n \in 0..MaxTarget : Exists(TempFile(n)) => n = 0 /\ env.stale

\* C10: a request with a non-positive target_size is rejected before any
\* generation work starts: the job never completes, ends failed, and creates
\* neither a temporary file nor the output file.
C10_NonPositiveTargetRejected ==
    config.target_size <= 0 =>
        /\ status # "completed"
        /\ pc = "done" => status = "failed"
        /\ futures = <<>>
        /\ OutputUntouched

(* ------------------------------ ScalableVGM --------------------------- *)
\* the variables of the job, which the calls on a model leave alone
jobvars == <<config, env, pc, status, error, fitted, tempDir, fs, num_chunks,
             temp_files, futures, completed, nresult, merge, mlog, given, detail>>

\* no job was requested
IdleJob ==
    /\ config = [target_size |-> 0, sample_size |-> 0, chunk_size |-> 0,
                 chunks_per_file |-> 0]
    /\ env = [nrows |-> 0, stale |-> FALSE]
    /\ pc = "idle"
    /\ status = "none"
    /\ error = ""
    /\ fitted = FALSE
    /\ tempDir = FALSE
    /\ fs = EmptyFs
    /\ num_chunks = 0
    /\ temp_files = <<>>
    /\ futures = <<>>
    /\ completed = <<>>
    /\ nresult = 0
    /\ merge = NoMerge
    /\ mlog = <<>>
    /\ given = <<>>
    /\ detail = NoDetail

\* the sum of the weights of a fitted BayesianGaussianMixture: 1.0
WeightOne == 1000000 * EPS

\* The weights BayesianGaussianMixture.fit may leave for n components. Each
\* component has weight EPS, just more than EPS, or an equal share of what
\* the others leave (the first sharing component takes the remainder): the
\* weights sum to 1, so at least one component shares.
WeightKinds == {"eps", "above", "share"}

Small(kind) ==
    IF kind = "eps" THEN EPS ELSE IF kind = "above" THEN EPS + 1 ELSE 0

RECURSIVE SumSmall(_)
SumSmall(kinds) ==
    IF kinds = <<>> THEN 0 ELSE Small(Head(kinds)) + SumSmall(Tail(kinds))

WeightsOf(kinds) ==
    LET sharing == {k \in 1..Len(kinds) : kinds[k] = "share"}
        rest == WeightOne - SumSmall(kinds)
        first == CHOOSE k \in sharing : \A j \in sharing : k <= j
    IN  [k \in 1..Len(kinds) |->
            IF kinds[k] # "share" THEN Small(kinds[k])
            ELSE (rest \div Cardinality(sharing))
                 + (IF k = first THEN rest % Cardinality(sharing) ELSE 0)]

\* the means it may leave, rising or falling with the component, and the
\* covariances
MeansOf(n) == {[k \in 1..n |-> 6 * (k - 1)], [k \in 1..n |-> 6 * (n - k)]}
CovarianceValues == {1, 4}

\* bgm.weights_, bgm.means_, bgm.covariances_ after a fit that succeeds
LibraryFits(n) ==
    {[weights |-> WeightsOf(kinds), means |-> m, covariances |-> c] :
        kinds \in {k \in [1..n -> WeightKinds] : \E i \in 1..n : k[i] = "share"},
        m \in MeansOf(n),
        c \in [1..n -> CovarianceValues]}

\* a variant of IsValid that keeps a component of weight exactly EPS
IsValidInclusive(w) == w >= EPS

\* self.bgm.weights_ > EPS
IsValid(w) == w > EPS

\* a[mask]: the elements of a where mask holds, in their order
RECURSIVE Masked(_, _)
Masked(a, mask) ==
    IF a = <<>> THEN <<>>
    ELSE (IF Head(mask) THEN <<Head(a)>> ELSE <<>>) \o Masked(Tail(a), Tail(mask))

\* np.sqrt of a covariance
Sqrt(c) == CHOOSE r \in 0..c : r * r = c

\* ScalableVGM.fit after self.bgm.fit(data) has succeeded with lib
fit(v, lib) ==
    LET valid == [k \in 1..Len(lib.weights) |-> IsValid(lib.weights[k])]
        covs == Masked(lib.covariances, valid)
    IN  [v EXCEPT !.bgm = [fitted |-> TRUE, weights |-> lib.weights,
                           means |-> lib.means, covariances |-> lib.covariances],
                  !.assigned = TRUE,
                  !.valid_component_indicator = valid,
                  !.means = Masked(lib.means, valid),
                  !.stds = [i \in 1..Len(covs) |-> Sqrt(covs[i])]]

\* the error a call ends with, nothing returned
Raised(e) == [error |-> e, values |-> <<>>, mode_indicators |-> <<>>]

RECURSIVE Product(_)
Product(a) == IF a = <<>> THEN 1 ELSE Head(a) * Product(Tail(a))

\* The squared distance of x to the mean of valid component j, in units of
\* that component's variance, scaled by the product of all the variances to
\* stay whole.
Distance(v, x, j) ==
    ((x - v.means[j]) * (x - v.means[j]) * Product(v.stds) * Product(v.stds))
        \div (v.stds[j] * v.stds[j])

\* self.bgm.predict_proba(data)[:, valid_component_indicator].argmax(axis=1) for
\* one value: the valid component of greatest responsibility, the first of
\* them when several share it, counted from 0. The responsibility of equally
\* weighted components falls with the distance above.
PredictMode(v, x) ==
    LET V == 1..Len(v.means)
        best == CHOOSE j \in V :
                    /\ \A k \in V : Distance(v, x, j) <= Distance(v, x, k)
                    /\ \A k \in V : k < j => Distance(v, x, j) < Distance(v, x, k)
    IN  best - 1

\* a variant of Normalize that divides by the variance
NormalizeByVariance(x, mean, std) == <<x - mean, std * std>>

\* (data[mask] - mean) / std, as the fraction <<numerator, denominator>>
Normalize(x, mean, std) == <<x - mean, std>>

\* transform_batch on a fitted model
Transformed(v, data) ==
    LET modes == [i \in 1..Len(data) |-> PredictMode(v, data[i])] IN
    [error |-> "",
     values |-> [i \in 1..Len(data) |->
                    Normalize(data[i], v.means[modes[i] + 1], v.stds[modes[i] + 1])],
     mode_indicators |-> modes]

\* a variant of transform_batch that returns zeros when the model is not fitted
transform_batch_unfitted(v, data) ==
    IF ~v.bgm.fitted
    THEN [error |-> "", values |-> [i \in 1..Len(data) |-> <<0, 1>>],
          mode_indicators |-> [i \in 1..Len(data) |-> 0]]
    ELSE Transformed(v, data)

\* ScalableVGM.transform_batch: predict_proba raises on a bgm that is not fitted
transform_batch(v, data) ==
    IF ~v.bgm.fitted THEN Raised("NotFittedError") ELSE Transformed(v, data)

\* ScalableVGM.inverse_transform_batch: zip(None, None) raises; else the
\* result starts as zeros and the mask of every idx in range(len(means))
\* assigns data * std + mean, so an element whose mode indicator is no such
\* idx keeps its zero.
inverse_transform_batch(v, data, mode_indicators) ==
    IF ~v.assigned THEN Raised("TypeError")
    ELSE [error |-> "",
          values |-> [i \in 1..Len(data) |->
                        IF \E idx \in 0..(Len(v.means) - 1) : mode_indicators[i] = idx
                        THEN data[i] * v.stds[mode_indicators[i] + 1]
                             + v.means[mode_indicators[i] + 1]
                        ELSE 0],
          mode_indicators |-> mode_indicators]

\* the batches of one value of S, or of two different ones
Batches(S) == {<<a>> : a \in S} \cup {p \in S \X S : p[1] # p[2]}

\* what np.random.normal draws, and the values a batch to transform holds
NormValues == {-1, 3}
DataValues == {0, 3, 6}

\* the record of a call and of what it gave
Called(op, data, modes, res, succeeded) ==
    [op |-> op, data |-> data, modes |-> modes, error |-> res.error,
     values |-> res.values, mode_indicators |-> res.mode_indicators,
     of_data |-> IF op = "transform" /\ call.op = "inverse" /\ call.error = ""
                    /\ data = call.values
                 THEN call.data ELSE <<>>,
     of_modes |-> IF op = "transform" /\ call.op = "inverse" /\ call.error = ""
                     /\ data = call.values
                  THEN call.modes ELSE <<>>,
     succeeded |-> succeeded]

\* vgm.fit(data): self.bgm.fit raises (data is None, too few rows, ...) and
\* nothing is assigned, or it succeeds with one of the library's fits. A
\* model is fitted once, as SyntheticDataService does with its own.
Fit ==
    /\ call.op = "none"
    /\ \/ \E lib \in LibraryFits(vgm.n_components) :
             /\ ~vgm.assigned
             /\ vgm' = fit(vgm, lib)
             /\ call' = Called("fit", <<>>, <<>>, Raised(""), TRUE)
       \/ /\ call' = Called("fit", <<>>, <<>>, Raised("ValueError"), call.succeeded)
          /\ UNCHANGED vgm
    /\ UNCHANGED <<jobvars, pool, jobs, db>>

\* vgm.transform_batch(data), on given values or, before the caller does
\* anything else, on what inverse_transform_batch has just returned
TransformBatch ==
    /\ \E data \in (IF call.op = "none" THEN Batches(DataValues) ELSE {})
                    \cup (IF call.op = "inverse" /\ call.error = ""
                          THEN {call.values} ELSE {}) :
          call' = Called("transform", data, <<>>, transform_batch(vgm, data),
                         call.succeeded)
    /\ UNCHANGED <<jobvars, pool, jobs, vgm, db>>

\* vgm.inverse_transform_batch(data, mode_indicators)
\* a variant of InverseTransformBatch that keeps the batch's values in the
\* model, in the place of its means
InverseTransformBatchInPlace ==
    /\ call.op = "none"
    /\ \E data \in Batches(NormValues) :
          \E mode_indicators \in [1..Len(data) -> -1..vgm.n_components] :
             LET res == inverse_transform_batch(vgm, data, mode_indicators) IN
             /\ call' = Called("inverse", data, mode_indicators, res, call.succeeded)
             /\ vgm' = IF res.error = "" THEN [vgm EXCEPT !.means = res.values]
                       ELSE vgm
    /\ UNCHANGED <<jobvars, pool, jobs, db>>

InverseTransformBatch ==
    /\ call.op = "none"
    /\ \E data \in Batches(NormValues) :
          \E mode_indicators \in [1..Len(data) -> -1..vgm.n_components] :
             call' = Called("inverse", data, mode_indicators,
                            inverse_transform_batch(vgm, data, mode_indicators),
                            call.succeeded)
    /\ UNCHANGED <<jobvars, pool, jobs, vgm, db>>

\* a variant of ModeDraws whose upper end is included
ModeDrawsInclusive(v) == 0..Len(v.means)

\* what np.random.randint(0, len(vgm.means)) draws: low included, high not
ModeDraws(v) == 0..(Len(v.means) - 1)

\* SyntheticDataService._generate_chunk(vgm, chunk_size): len(vgm.means) raises
\* on None; else np.random.normal, np.random.randint(0, len(vgm.means)) and
\* inverse_transform_batch
GenerateChunk ==
    /\ call.op = "none"
    /\ \/ /\ ~vgm.assigned
          /\ call' = Called("chunk", <<>>, <<>>, Raised("TypeError"), call.succeeded)
       \/ /\ vgm.assigned
          /\ \E normal_data \in Batches(NormValues) :
                \E mode_indicators \in
                        [1..Len(normal_data) -> ModeDraws(vgm)] :
                   call' = Called("chunk", normal_data, mode_indicators,
                                  inverse_transform_batch(vgm, normal_data,
                                                          mode_indicators),
                                  call.succeeded)
    /\ UNCHANGED <<jobvars, pool, jobs, vgm, db>>

\* the caller has taken what the call gave, and may make its next call
Returned ==
    /\ call.op # "none"
    /\ call' = [NoCall EXCEPT !.succeeded = call.succeeded]
    /\ UNCHANGED <<jobvars, pool, jobs, vgm, db>>

InitVgm ==
    /\ IdleJob
    /\ vgm \in {NewVgm(n) : n \in 1..MaxComponents}
    /\ call = NoCall
    /\ db = NoDb
    /\ pool = NoPool
    /\ jobs = NoJobs

NextVgm ==
    \/ Fit
    \/ TransformBatch
    \/ InverseTransformBatch
    \/ GenerateChunk
    \/ Returned

SpecVgm == InitVgm /\ [][NextVgm]_vars

(* ----------------------------- DatabaseManager ------------------------ *)
\* the amounts and the batch ids of the batches written
Amounts == {1, 2}
BatchIds == {0, 1}

\* The rows df.to_sql(..., if_exists='append') inserts for data and batch_id:
\* id INTEGER PRIMARY KEY AUTOINCREMENT gives each row the next id after the
\* greatest the table ever gave.
InsertedRows(data, batch_id, sequence) ==
    {[id |-> sequence + i, amount |-> data[i], batch_id |-> batch_id] :
        i \in 1..Len(data)}

\* a variant of OrderById: ORDER BY batch_id, id
OrderByBatchId(rows) ==
    [i \in 1..Cardinality(rows) |->
        CHOOSE r \in rows :
            Cardinality({q \in rows : \/ q.batch_id < r.batch_id
                                      \/ /\ q.batch_id = r.batch_id
                                         /\ q.id < r.id}) = i - 1]

\* SELECT ... FROM synthetic_data ORDER BY id
OrderById(rows) ==
    [i \in 1..Cardinality(rows) |->
        CHOOSE r \in rows : Cardinality({q \in rows : q.id < r.id}) = i - 1]

\* the line chunk.to_csv(f, header=False, index=False) writes for an amount
CsvLine(amount) == <<"line", amount>>

\* f.write('Amount\n')
CsvHeader == <<"Amount">>

\* write_synthetic_batch(data, batch_id): the rows are inserted and committed,
\* or to_sql raises and its transaction is rolled back
WriteSyntheticBatch ==
    /\ db.tables
    /\ \E data \in Batches(Amounts), batch_id \in BatchIds :
          /\ db.sequence + Len(data) <= MaxSequence
          /\ \/ db' = [db EXCEPT
                         !.synthetic_data =
                             @ \cup InsertedRows(data, batch_id, db.sequence),
                         !.sequence = @ + Len(data),
                         !.op = "write", !.error = "", !.count = 0,
                         !.output = <<>>,
                         !.appended = @ \o data]
             \/ db' = [db EXCEPT !.op = "write", !.error = "OperationalError",
                                 !.count = 0, !.output = <<>>]
    /\ UNCHANGED <<jobvars, pool, jobs, vgm, call>>

\* clear_synthetic_data: DELETE FROM synthetic_data, commit
ClearSyntheticData ==
    /\ db.tables
    /\ db' = [db EXCEPT !.synthetic_data = {},
                        !.op = "clear", !.error = "", !.count = 0,
                        !.output = <<>>,
                        !.appended = <<>>]
    /\ UNCHANGED <<jobvars, pool, jobs, vgm, call>>

\* get_synthetic_data_count: SELECT COUNT(*) FROM synthetic_data
GetSyntheticDataCount ==
    /\ db.tables
    /\ db' = [db EXCEPT !.op = "count", !.error = "",
                        !.count = Cardinality(db.synthetic_data),
                        !.output = <<>>]
    /\ UNCHANGED <<jobvars, pool, jobs, vgm, call>>

\* export_synthetic_data(output_path): the header, then the amounts ordered
\* by id; or open raises, or a write does after the header
ExportSyntheticData ==
    /\ db.tables
    /\ \/ LET rows == OrderById(db.synthetic_data) IN
          db' = [db EXCEPT !.op = "export", !.error = "", !.count = 0,
                          !.output = <<CsvHeader>> \o
                              [i \in 1..Len(rows) |-> CsvLine(rows[i].amount)]]
       \/ \E written \in {<<>>, <<CsvHeader>>} :
             db' = [db EXCEPT !.op = "export", !.error = "OSError",
                             !.count = 0, !.output = written]
    /\ UNCHANGED <<jobvars, pool, jobs, vgm, call>>

\* after connect() and initialize_tables(): both tables exist and are empty
InitDb ==
    /\ IdleJob
    /\ vgm = NewVgm(N_COMPONENTS)
    /\ call = NoCall
    /\ db = [NoDb EXCEPT !.tables = TRUE]
    /\ pool = NoPool
    /\ jobs = NoJobs

NextDb ==
    \/ WriteSyntheticBatch
    \/ ClearSyntheticData
    \/ GetSyntheticDataCount
    \/ ExportSyntheticData

SpecDb == InitDb /\ [][NextDb]_vars

(* ------------------------------- C11 ---------------------------------- *)
\* what _fit_vgm_model raises
FitErrors == {"ZeroDivisionError", "ValueError", "FitFailed"}

\* the fit of this job has failed
FitHasFailed == ~fitted /\ error \in FitErrors

\* the files the job found when it began
FoundFs == IF env.stale THEN StaleFs ELSE EmptyFs

\* C11: when the fit fails, the job fails before any work unit is
\* submitted and has created nothing: no temporary file, no output file and no
\* temporary directory that was not there before.
C11_FitFailureCreatesNothing ==
    FitHasFailed =>
        /\ futures = <<>>
        /\ status # "completed"
        /\ fs = FoundFs
        /\ tempDir = env.stale

(* ------------------------------- C12 ---------------------------------- *)
Statuses == {"pending", "processing", "completed", "failed"}

\* what job_statuses[job_id] holds beside its status
StatusCarries ==
    /\ status = "processing" => DOMAIN detail = {}
    /\ status = "completed" =>
          /\ DOMAIN detail = {"output_file", "metrics"}
          /\ detail.output_file = OutputFile
          /\ detail.metrics.processing_time_seconds \in 0..MaxElapsed
    /\ status = "failed" =>
          /\ DOMAIN detail = {"error_message"}
          /\ detail.error_message = error
          /\ error # ""

\* a step writes job_statuses[job_id] only to end "processing"
StatusWrittenOnce ==
    /\ (status' # status) =>
          (status = "processing" /\ status' \in {"completed", "failed"})
    /\ (detail' # detail) => (status' # status)

\* C12: the status is always one of pending, processing, completed, failed; it
\* is written once after "processing", to completed or to failed, by the time
\* the task ends, and never again; completed carries the output file and the
\* elapsed seconds, failed carries the error's message.
C12_StatusLifecycle ==
    /\ [](status \in Statuses /\ StatusCarries)
    /\ [](pc = "done" => status \in {"completed", "failed"})
    /\ [][StatusWrittenOnce]_vars

C12_Witness ==
    /\ pc = "done"
    /\ status = "failed"
    /\ detail.error_message = "WorkerError"

(* ------------------------------- C13 ---------------------------------- *)
\* how far a work unit is
Rank(state) == IF state = "pending" THEN 0 ELSE IF state = "running" THEN 1 ELSE 2

\* a step starts no work unit and no merge step over again, and after an
\* error it neither replaces the error nor goes on merging
NothingRetried ==
    /\ Len(futures') >= Len(futures)
    /\ \A w \in 1..Len(futures) :
          /\ futures'[w].file = futures[w].file
          /\ Rank(futures'[w].state) >= Rank(futures[w].state)
          /\ futures'[w].iter >= futures[w].iter
    /\ merge'.i >= merge.i
    /\ Len(mlog') >= Len(mlog)
    /\ SubSeq(mlog', 1, Len(mlog)) = mlog
    /\ \A q \in (Len(mlog) + 1)..Len(mlog') :
          \A r \in 1..Len(mlog) : mlog'[q] # mlog[r]
    /\ (error # "") => (error' = error /\ merge' = merge /\ mlog' = mlog)

\* C13: an error raised by the fit, a work unit, the merge or the cleanup ends
\* the job with status failed and that error's message, never completed, and
\* no work unit and no merge step is run a second time.
C13_ErrorFailsJobWithoutRetry ==
    /\ []((pc = "done" /\ error # "") =>
            (status = "failed" /\ detail.error_message = error))
    /\ []((error # "") => (status # "completed"))
    /\ [][NothingRetried]_vars

C13_Witness ==
    /\ status = "failed"
    /\ detail.error_message = error
    /\ \E w \in Units : futures[w].state = "failed"
    /\ \E w \in Units : futures[w].state = "done" /\ Len(fs[futures[w].file]) > 1

(* ------------------------------- C14 ---------------------------------- *)
\* the task has every result there is and a work unit has not finished
WaitingForUnit ==
    /\ pc \in {"wait", "shutdown"}
    /\ pc = "wait" => nresult = Len(completed)
    /\ \E w \in Units : ~Finished(w)

\* C14: when every dispatched work unit finishes or fails, the job reaches
\* completed or failed, and completed when nothing has raised; while a work
\* unit has not finished the task cannot take a step and the status stays
\* "processing".
C14_JobEnds ==
    /\ <>(pc = "done" /\ status \in {"completed", "failed"})
    /\ []((pc = "done" /\ error = "") => (status = "completed"))
    /\ [](WaitingForUnit => (status = "processing" /\ ~ENABLED Orchestrator))

C14_Witness ==
    /\ pc = "done"
    /\ status = "completed"
    /\ error = ""
    /\ Len(futures) >= 2
    /\ \A w \in Units : futures[w].state = "done"

(* ------------------------------- C15 ---------------------------------- *)
\* the records of a file: its lines that are not a header
Records(lines) == {i \in 1..Len(lines) : lines[i][1] = "row"}

\* C15: a job with target_size 1000, chunk_size 250 and chunks_per_file 2
\* computes 4 chunks, submits 2 work units for 2 temporary files, and when
\* it has completed the output file holds the header and exactly 1000 records.
C15_ThousandRecords ==
    /\ (fitted /\ pc \notin {"fit", "chunks"}) =>
          (num_chunks = 4 /\ NumFiles(num_chunks, config.chunks_per_file) = 2)
    /\ Dispatched => (Len(futures) = 2 /\ Len(temp_files) = 2)
    /\ \A w \in Units : futures[w].iter <= 2
    /\ status = "completed" =>
          /\ \A w \in Units : futures[w].iter = 2
          /\ Len(fs[OutputFile]) = 1001
          /\ Cardinality(Records(fs[OutputFile])) = 1000

C15_Witness ==
    /\ config.target_size = 1000
    /\ status = "completed"
    /\ Len(futures) = 2
    /\ Cardinality(Records(fs[OutputFile])) = 1000

(* ------------------------------- C16 ---------------------------------- *)
\* the mode indicators a fitted model has a component for: [0, V)
InRange(m) == m \in 0..(Len(vgm.means) - 1)

\* C16: inverse_transform_batch on a fitted model with a mode indicator
\* outside [0, V) raises IndexError and returns no values.
C16_OutOfRangeModeRaises ==
    (/\ call.op = "inverse"
     /\ vgm.assigned
     /\ \E i \in 1..Len(call.modes) : ~InRange(call.modes[i])) =>
        (call.error = "IndexError" /\ call.values = <<>>)

(* ------------------------------- C17 ---------------------------------- *)
\* the components whose weight is greater than EPS
Heavy == {k \in 1..Len(vgm.bgm.weights) : vgm.bgm.weights[k] > EPS}

\* the j-th of them, in component order
NthHeavy(j) == CHOOSE k \in Heavy : Cardinality({i \in Heavy : i <= k}) = j

\* C17: after a fit that succeeded there are V >= 1 components of weight
\* greater than EPS, and means and stds have length V and hold the means and
\* the standard deviations of exactly those components, in component order; a
\* fit does not succeed with no such component.
C17_ValidComponents ==
    /\ (call.op = "fit" /\ call.error = "") => vgm.assigned
    /\ vgm.assigned =>
          /\ Cardinality(Heavy) >= 1
          /\ Len(vgm.means) = Cardinality(Heavy)
          /\ Len(vgm.stds) = Cardinality(Heavy)
          /\ \A k \in 1..Len(vgm.bgm.weights) :
                vgm.valid_component_indicator[k] = (k \in Heavy)
          /\ \A j \in 1..Cardinality(Heavy) :
                /\ vgm.means[j] = vgm.bgm.means[NthHeavy(j)]
                /\ vgm.stds[j] >= 0
                /\ vgm.stds[j] * vgm.stds[j] = vgm.bgm.covariances[NthHeavy(j)]

\* C17 witness: a fit has pruned the first component, of weight exactly EPS,
\* and kept the second
C17_Witness ==
    /\ call.op = "fit"
    /\ call.error = ""
    /\ vgm.n_components = 2
    /\ vgm.bgm.weights[1] = EPS
    /\ vgm.means = <<vgm.bgm.means[2]>>
    /\ vgm.bgm.means[1] # vgm.bgm.means[2]

(* ------------------------------- C18 ---------------------------------- *)
\* transform_batch has been given what inverse_transform_batch returned for
\* normalized values of_data and mode indicators of_modes, all in [0, V)
RoundTrip ==
    /\ call.op = "transform"
    /\ call.error = ""
    /\ call.of_data # <<>>
    /\ \A i \in 1..Len(call.of_modes) : InRange(call.of_modes[i])

\* the fraction q is the whole number n
Equals(q, n) == q[1] = n * q[2]

\* C18 as stated: the round trip assigns every element its mode m again and
\* returns its normalized value v.
C18_RoundTripRecovers ==
    RoundTrip =>
        \A i \in 1..Len(call.of_data) :
            /\ call.mode_indicators[i] = call.of_modes[i]
            /\ Equals(call.values[i], call.of_data[i])

\* C18 amended: the round trip assigns every element a mode in [0, V), which
\* need not be m; it returns the value normalized against the assigned mode
\* (so taking that back with the assigned mode gives the value again), and
\* this is v whenever the assigned mode is m.
C18_RoundTripWhenModeKept ==
    RoundTrip =>
        \A i \in 1..Len(call.of_data) :
            LET m == call.mode_indicators[i]
                q == call.values[i] IN
            /\ InRange(m)
            /\ q[2] = vgm.stds[m + 1]
            /\ q[1] + vgm.means[m + 1] = call.data[i]
            /\ (m = call.of_modes[i]) => Equals(q, call.of_data[i])

\* C18 witness: a round trip of two values with different modes, both kept,
\* on components of different standard deviation
C18_Witness ==
    /\ RoundTrip
    /\ Len(call.of_data) = 2
    /\ call.of_modes[1] # call.of_modes[2]
    /\ call.mode_indicators = call.of_modes
    /\ vgm.stds[call.of_modes[1] + 1] # vgm.stds[call.of_modes[2] + 1]
    /\ Equals(call.values[1], call.of_data[1])

(* ------------------------------- C19 ---------------------------------- *)
\* C19: while no fit has succeeded on the model, transform_batch and
\* _generate_chunk raise and return no values, and the model is not fitted:
\* a fit that failed has left means, stds and the mixture unassigned.
C19_UnfittedModelRaises ==
    ~call.succeeded =>
        /\ ~vgm.assigned
        /\ ~vgm.bgm.fitted
        /\ vgm.means = <<>> /\ vgm.stds = <<>>
        /\ call.op \in {"transform", "chunk"} =>
              (call.error # "" /\ call.values = <<>>)
        /\ call.op = "fit" => call.error # ""

\* C19 witness: transform_batch has raised on a model whose fit never succeeded
C19_Witness ==
    /\ ~call.succeeded
    /\ call.op = "transform"
    /\ call.error = "NotFittedError"
    /\ call.values = <<>>

(* ------------------------------- C20 ---------------------------------- *)
\* C20: after any appends and clears the table holds as many rows as were
\* appended since the last clear, the count is that number, and an export
\* that succeeds writes one header and then exactly those amounts in the
\* order they were inserted, whatever their batch ids.
C20_CountAndExportInOrder ==
    /\ Cardinality(db.synthetic_data) = Len(db.appended)
    /\ db.op = "count" => db.count = Len(db.appended)
    /\ (db.op = "export" /\ db.error = "") =>
          /\ Len(db.output) = 1 + Len(db.appended)
          /\ db.output[1] = CsvHeader
          /\ \A i \in 1..Len(db.appended) :
                db.output[i + 1] = CsvLine(db.appended[i])

\* C20 witness: an export after a clear, of rows whose batch ids fall while
\* their ids rise
C20_Witness ==
    /\ db.op = "export"
    /\ db.error = ""
    /\ db.sequence > Len(db.appended)
    /\ Len(db.output) = 3
    /\ db.appended[1] # db.appended[2]
    /\ \E r, q \in db.synthetic_data : r.id < q.id /\ r.batch_id > q.batch_id

(* ------------------------------- C21 ---------------------------------- *)
\* the merge has copied and deleted temporary file f
Consumed(f) ==
    /\ ~Exists(f)
    /\ \E q \in 1..Len(mlog) : mlog[q] = <<"unlink", f>>

\* temp_dir holds an entry
TempDirHolds == \E p \in DOMAIN fs : p[1] = "temp_dir"

\* the step of _cleanup that returns: temp_dir is removed exactly when it
\* holds nothing, and no file is touched
CleanupReturns ==
    (pc = "cleanup" /\ pc' = "returned") =>
        /\ fs' = fs
        /\ tempDir' = (tempDir /\ TempDirHolds)

\* temp_dir is removed by no other step and never with something in it
RemovedOnlyWhenEmpty ==
    (tempDir /\ ~tempDir') => (pc = "cleanup" /\ ~TempDirHolds)

\* C21: the cleanup runs only when every temporary file of the job has been
\* consumed; it removes temp_dir if and only if temp_dir holds no entry, and
\* with a file left in it temp_dir and the file stay as they are and the job,
\* nothing having raised, is completed.
C21_CleanupOnlyWhenEmpty ==
    /\ [](pc = "cleanup" =>
            (tempDir /\ \A i \in 1..Len(temp_files) : Consumed(temp_files[i])))
    /\ [][CleanupReturns]_vars
    /\ [][RemovedOnlyWhenEmpty]_vars
    /\ []((pc = "done" /\ error = "") => (status = "completed"))

\* C21 witness: a completed job that has consumed two temporary files and
\* left temp_dir with the file an earlier run had put there
C21_Witness ==
    /\ status = "completed"
    /\ Len(temp_files) >= 2
    /\ \A i \in 1..Len(temp_files) : Consumed(temp_files[i])
    /\ tempDir
    /\ Exists(StrayFile)

(* ------------------------------- C22 ---------------------------------- *)
\* future.result() has raised the exception of a failed work unit
FailureArrived == pc = "shutdown" /\ error = "WorkerError"

\* C22: when the first failure of a work unit has arrived while other work
\* units are still running or queued, the task is not held back by them: it
\* can take its next step, towards reporting the failure, at once.
C22_FailureReportedAtOnce ==
    (FailureArrived /\ \E w \in Units : ~Finished(w)) => ENABLED Orchestrator

(* ------------------------------- C23 ---------------------------------- *)
\* C23: when the job is reported completed, every temporary file its work
\* units wrote has been copied whole, header apart, into the output file and
\* deleted: none exists any more, none was skipped.
C23_CompletedMeansAllConsumed ==
    status = "completed" =>
        /\ Len(temp_files) = Len(futures)
        /\ Len(given) = Len(futures)
        /\ \A w \in Units :
              /\ temp_files[w] = futures[w].file
              /\ Consumed(futures[w].file)
              /\ given[w] # <<>>
              /\ \E q \in 1..Len(mlog) : mlog[q] = <<"eof", futures[w].file>>
        /\ fs[OutputFile] = <<Header>> \o ConcatBodies(given)

\* C23 witness: a completed job of two temporary files, each filling a whole
\* read of the merge
C23_Witness ==
    /\ status = "completed"
    /\ Len(futures) >= 2
    /\ \A w \in Units : Len(given[w]) - 1 >= BufferLines
    /\ Len(fs[OutputFile]) >= 1 + 2 * BufferLines

(* ------------------------------- C24 ---------------------------------- *)
\* C24: the temporary file of a work unit that has returned holds, until the
\* merge deletes it, one header as its first line and then the records of the
\* chunks that work unit generated, in the order it generated them, and no
\* line of another work unit or of an earlier run.
C24_ArtifactOfOneWorkUnit ==
    \A w \in Units :
        (futures[w].state = "done" /\ Exists(futures[w].file)) =>
            LET lines == fs[futures[w].file] IN
            /\ lines[1] = Header
            /\ \A j \in 2..Len(lines) : lines[j] # Header
            /\ Len(lines) = 1 + futures[w].iter * chunk_size
            /\ \A c \in 0..(futures[w].iter - 1) : \A r \in 1..chunk_size :
                  lines[1 + c * chunk_size + r] = Record(w - 1, c, r)

\* C24 witness: two returned work units, one of them of two chunks, their
\* files not yet merged, where an earlier run had left a file of the same name
C24_Witness ==
    /\ env.stale
    /\ Len(futures) >= 2
    /\ \E w \in Units : futures[w].iter = 2
    /\ \A w \in Units :
          /\ futures[w].state = "done"
          /\ Exists(futures[w].file)
          /\ Len(fs[futures[w].file]) = 1 + futures[w].iter * chunk_size

(* ------------------------------- C28 ---------------------------------- *)
\* a line that a work unit of this run generated
GeneratedHere(line) ==
    \E w \in Units : \E c \in 0..(futures[w].iter - 1) : \E r \in 1..chunk_size :
        line = Record(w - 1, c, r)

\* C28: after a successful run the output file holds one header, its first
\* line, and otherwise only records generated by this run's work units, also
\* when an earlier run had left temporary files of the same names and an
\* output file: a work unit's file holds nothing but the header when the unit
\* starts writing, and the output file nothing of the earlier run once the
\* merge has opened it.
C28_OnlyThisRunsRecords ==
    /\ \A w \in Units :
          (futures[w].state = "running" /\ futures[w].iter = 0) =>
              fs[futures[w].file] = <<Header>>
    /\ pc \in {"merge", "flush", "cleanup", "returned"} =>
          /\ fs[OutputFile][1] = Header
          /\ \A j \in 2..Len(fs[OutputFile]) : GeneratedHere(fs[OutputFile][j])
    /\ status = "completed" =>
          /\ fs[OutputFile][1] = Header
          /\ \A j \in 2..Len(fs[OutputFile]) :
                /\ fs[OutputFile][j] # Header
                /\ fs[OutputFile][j] # StaleRecord
                /\ GeneratedHere(fs[OutputFile][j])

\* C28 witness: a completed run of two work units that had found an earlier
\* run's temporary file and output file
C28_Witness ==
    /\ env.stale
    /\ status = "completed"
    /\ Len(futures) >= 2
    /\ Len(fs[OutputFile]) > 2

(* ------------------------------- C26 ---------------------------------- *)
\* the number of valid components of the fitted model
V == Cardinality({k \in 1..Len(vgm.valid_component_indicator) :
                     vgm.valid_component_indicator[k]})

\* a chunk generation whose first mode indicator is m
DrawsMode(m) == GenerateChunk /\ call'.modes[1] = m

\* C26: a chunk generated from a fitted model has as many records as normal
\* values were drawn (chunk_size), every mode indicator drawn lies in [0, V),
\* and every record is normal * stds[m] + means[m] for its mode indicator m;
\* and every index of [0, V) can be drawn.
C26_ModesDrawnInRange ==
    /\ (call.op = "chunk" /\ vgm.assigned) =>
          /\ call.error = ""
          /\ V >= 1
          /\ Len(vgm.means) = V
          /\ Len(call.modes) = Len(call.data)
          /\ Len(call.values) = Len(call.data)
          /\ \A i \in 1..Len(call.data) :
                /\ call.modes[i] \in 0..(V - 1)
                /\ call.values[i] = call.data[i] * vgm.stds[call.modes[i] + 1]
                                    + vgm.means[call.modes[i] + 1]
    /\ (call.op = "none" /\ vgm.assigned) =>
          \A m \in 0..(V - 1) : ENABLED DrawsMode(m)

\* C26 witness: a chunk of two records of a model of two valid components,
\* drawn from different components, the second one being the last index
C26_Witness ==
    /\ call.op = "chunk"
    /\ call.error = ""
    /\ V = 2
    /\ Len(call.values) = 2
    /\ call.modes[1] = 0
    /\ call.modes[2] = V - 1

(* ------------------------------- C27 ---------------------------------- *)
\* a step that leaves the model of a fitted ScalableVGM as it was
ModelKept == vgm.assigned => vgm' = vgm

\* C27: once fit has assigned means, stds and valid_component_indicator, no
\* call changes them: not transform_batch, not inverse_transform_batch, not
\* the generation of a chunk, not a fit that fails.
C27_FittedModelImmutable == [][ModelKept]_vars

\* C27 witness: a fitted model that has generated a chunk of two records
C27_Witness ==
    /\ vgm.assigned
    /\ vgm.bgm.fitted
    /\ call.op = "chunk"
    /\ call.error = ""
    /\ Len(call.values) = 2
    /\ call.values[1] # call.values[2]

(* ------------------- the pool's random generators ---------------------- *)
\* How the platform starts the processes of a ProcessPoolExecutor: fork gives
\* the child a copy of the parent's memory, spawn (and forkserver) a new
\* interpreter that imports numpy again.
StartMethods == {"fork", "spawn"}

\* the seed numpy's global generator of the parent was made from
ParentSeed == 0

\* numpy's global generator: the seed it was made from, the draws made since
Advance(g) == <<g[1], g[2] + 1>>

\* what np.random.normal and np.random.randint give for a chunk: decided by
\* the generator's state
Draw(g) == <<"values", g[1], g[2]>>

\* the parent when the pool is made: df.sample of _fit_vgm_model has drawn
ParentGenerator == Advance(<<ParentSeed, 0>>)

\* the generator a new process of the pool has: the parent's under fork, one
\* seeded anew under spawn
ChildGenerator(k) ==
    IF pool.start = "fork" THEN pool.parent ELSE <<ParentSeed + k, 0>>

\* the work units submitted, none taken yet
PendingUnits(n, chunks) ==
    [w \in 1..n |-> [state |-> "pending", proc |-> 0, start |-> <<>>,
                     draws |-> <<>>, left |-> chunks]]

InitPool ==
    /\ IdleJob
    /\ vgm = NewVgm(N_COMPONENTS)
    /\ call = NoCall
    /\ db = NoDb
    /\ jobs = NoJobs
    /\ \E method \in StartMethods, n \in 1..MaxUnits, chunks \in 1..MaxChunksPerFile :
          pool = [start |-> method, parent |-> ParentGenerator, procs |-> <<>>,
                  units |-> PendingUnits(n, chunks)]

\* the executor starts one more process, up to max_workers
ProcessStart ==
    /\ pool.start # "none"
    /\ Len(pool.procs) < PoolSize
    /\ \E w \in 1..Len(pool.units) : pool.units[w].state = "pending"
    /\ pool' = [pool EXCEPT !.procs =
                   Append(@, [first |-> ChildGenerator(Len(pool.procs) + 1),
                              rng |-> ChildGenerator(Len(pool.procs) + 1),
                              unit |-> 0])]
    /\ UNCHANGED <<jobvars, vgm, call, db, jobs>>

\* an idle process takes the first work unit of the call queue
UnitTake(k, w) ==
    /\ pool.procs[k].unit = 0
    /\ pool.units[w].state = "pending"
    /\ \A v \in 1..(w - 1) : pool.units[v].state # "pending"
    /\ pool' = [pool EXCEPT !.procs[k].unit = w,
                            !.units[w] = [@ EXCEPT !.state = "running",
                                                   !.proc = k,
                                                   !.start = pool.procs[k].rng]]
    /\ UNCHANGED <<jobvars, vgm, call, db, jobs>>

\* _generate_chunk in the work unit's process: the process's generator gives
\* the chunk's values and moves on
UnitDraw(w) ==
    /\ pool.units[w].state = "running"
    /\ pool.units[w].left > 0
    /\ LET k == pool.units[w].proc IN
       pool' = [pool EXCEPT !.procs[k].rng = Advance(@),
                            !.units[w] = [@ EXCEPT
                                !.draws = Append(@, Draw(pool.procs[k].rng)),
                                !.left = @ - 1]]
    /\ UNCHANGED <<jobvars, vgm, call, db, jobs>>

\* _write_chunks_to_file returns: the process is idle again
UnitReturn(w) ==
    /\ pool.units[w].state = "running"
    /\ pool.units[w].left = 0
    /\ pool' = [pool EXCEPT !.procs[pool.units[w].proc].unit = 0,
                            !.units[w].state = "done"]
    /\ UNCHANGED <<jobvars, vgm, call, db, jobs>>

NextPool ==
    \/ ProcessStart
    \/ \E k \in 1..Len(pool.procs) : \E w \in 1..Len(pool.units) : UnitTake(k, w)
    \/ \E w \in 1..Len(pool.units) : UnitDraw(w)
    \/ \E w \in 1..Len(pool.units) : UnitReturn(w)

SpecPool == InitPool /\ [][NextPool]_vars

(* ------------------------------- C25 ---------------------------------- *)
\* the work units a process has taken
Started == {w \in 1..Len(pool.units) : pool.units[w].state # "pending"}

\* C25: every work unit draws from a generator of its own: no two work units
\* of the job start from the same generator state, no two that have returned
\* have drawn the same values, and a work unit starts from the state its
\* process's generator was made with, whatever another work unit has drawn.
C25_IndependentStreams ==
    /\ \A v \in Started : \A w \in Started \ {v} :
          /\ pool.units[v].start # pool.units[w].start
          /\ (pool.units[v].state = "done" /\ pool.units[w].state = "done") =>
                pool.units[v].draws # pool.units[w].draws
    /\ \A w \in Started :
          pool.units[w].start = pool.procs[pool.units[w].proc].first

(* ----------------------- two jobs at one time -------------------------- *)
\* uvicorn runs the application in several server processes, so two requests
\* can be served, and their jobs run, at the same time. A request names its
\* temp_dir and its output_file; nothing else enters a temporary file's name.
MaxJobFiles == 2
JobIds == {1, 2}
TempDirs == {"temp_a", "temp_b"}
Stems == {"out_x", "out_y"}

\* config.temp_dir / f"{base_filename}_temp_{current_file_number}{extension}"
JobTempFile(j, n) == <<jobs.cfg[j].temp_dir, jobs.cfg[j].stem, n>>

JobHeader(j) == <<"Amount", j>>
JobRecord(j, n) == <<"row", j, n>>

JobInFlight(j) == jobs.pc[j].at \in {"generate", "merge"}

InitJobs ==
    /\ IdleJob
    /\ vgm = NewVgm(N_COMPONENTS)
    /\ call = NoCall
    /\ db = NoDb
    /\ pool = NoPool
    /\ \E cfg \in [JobIds -> [temp_dir : TempDirs, stem : Stems,
                               files : 1..MaxJobFiles]] :
          jobs = [cfg |-> cfg,
                  unit |-> [j \in JobIds |-> [w \in 1..cfg[j].files |-> "pending"]],
                  pc |-> [j \in JobIds |-> [at |-> "generate", i |-> 0]],
                  fs |-> EmptyFs,
                  written |-> [j \in JobIds |-> {}],
                  read |-> [j \in JobIds |-> {}],
                  deleted |-> [j \in JobIds |-> {}]]

\* a work unit of job j starts: open(output_file, 'w') and the header
JobWorkerOpen(j, w) ==
    /\ jobs.pc[j].at = "generate"
    /\ jobs.unit[j][w] = "pending"
    /\ jobs' = [jobs EXCEPT
                   !.unit[j][w] = "running",
                   !.fs = WriteFile(@, JobTempFile(j, w - 1), <<JobHeader(j)>>),
                   !.written[j] = @ \cup {JobTempFile(j, w - 1)}]
    /\ UNCHANGED <<jobvars, vgm, call, db, pool>>

\* the work unit writes its records and returns; what it writes to a file
\* that was unlinked meanwhile is in no file of the directory
JobWorkerWrite(j, w) ==
    /\ jobs.unit[j][w] = "running"
    /\ jobs' = [jobs EXCEPT
                   !.unit[j][w] = "done",
                   !.fs = IF JobTempFile(j, w - 1) \in DOMAIN jobs.fs
                          THEN AppendFile(@, JobTempFile(j, w - 1),
                                          <<JobRecord(j, w - 1)>>)
                          ELSE @]
    /\ UNCHANGED <<jobvars, vgm, call, db, pool>>

\* every future of job j has given its result: _concatenate_results begins
JobMergeStart(j) ==
    /\ jobs.pc[j].at = "generate"
    /\ \A w \in 1..jobs.cfg[j].files : jobs.unit[j][w] = "done"
    /\ jobs' = [jobs EXCEPT !.pc[j] = [at |-> "merge", i |-> 1]]
    /\ UNCHANGED <<jobvars, vgm, call, db, pool>>

\* _process_file_batch on job j's next temp file: open, copy, unlink; or
\* open raises, and the job fails
JobMergeFile(j) ==
    /\ jobs.pc[j].at = "merge"
    /\ jobs.pc[j].i <= jobs.cfg[j].files
    /\ LET f == JobTempFile(j, jobs.pc[j].i - 1) IN
       IF f \in DOMAIN jobs.fs
       THEN jobs' = [jobs EXCEPT !.pc[j].i = @ + 1,
                                 !.fs = Unlink(@, f),
                                 !.read[j] = @ \cup {f},
                                 !.deleted[j] = @ \cup {f}]
       ELSE jobs' = [jobs EXCEPT !.pc[j].at = "failed"]
    /\ UNCHANGED <<jobvars, vgm, call, db, pool>>

\* the last temp file is merged: the job is completed
JobMergeEnd(j) ==
    /\ jobs.pc[j].at = "merge"
    /\ jobs.pc[j].i > jobs.cfg[j].files
    /\ jobs' = [jobs EXCEPT !.pc[j].at = "completed"]
    /\ UNCHANGED <<jobvars, vgm, call, db, pool>>

NextJobs ==
    \E j \in JobIds :
        \/ \E w \in 1..jobs.cfg[j].files : JobWorkerOpen(j, w)
        \/ \E w \in 1..jobs.cfg[j].files : JobWorkerWrite(j, w)
        \/ JobMergeStart(j)
        \/ JobMergeFile(j)
        \/ JobMergeEnd(j)

SpecJobs == InitJobs /\ [][NextJobs]_vars

(* ------------------------------- C29 ---------------------------------- *)
\* C29: while two jobs are both in flight, no temp file has been written by
\* work units of both, and the merge of neither has read or deleted a temp
\* file that the other job wrote.
C29_JobsShareNoArtifact ==
    (\A j \in JobIds : JobInFlight(j)) =>
        \A j \in JobIds : \A k \in JobIds \ {j} :
            /\ jobs.written[j] \cap jobs.written[k] = {}
            /\ (jobs.read[j] \cup jobs.deleted[j]) \cap jobs.written[k] = {}
====
